---- MODULE Spec2Model ----
(***************************************************************************)
(* Model of assignment.py: a Flask application with two endpoints.         *)
(*   GET /word_frequency?topic=..&n=..  fetches a Wikipedia article in two *)
(*       upstream calls, strips the markup, counts the whitespace tokens,  *)
(*       stores (topic, "w: c, w: c") in the SearchHistory table and       *)
(*       returns the top n pairs;                                          *)
(*   GET /search_history                returns every stored row.          *)
(*                                                                         *)
(* Strings that the code only passes along (topics, error messages) are    *)
(* TLA+ strings.  Strings that the code takes apart (the n parameter, the  *)
(* article extract, the cleaned text) are sequences of one-character       *)
(* strings; the tokens cut out of them are glued back into TLA+ strings.   *)
(* A JSON object is a function on its keys, so "k in obj" is               *)
(* k \in DOMAIN obj; the ordered dict data['query']['pages'] is a sequence *)
(* of [key, value] records.                                                *)
(***************************************************************************)
EXTENDS Integers, Sequences, FiniteSets, TLC

VARIABLES
    pc,                     \* per request thread: position in word_frequency
    args,                   \* per request thread: request.args
    n,                      \* local n after n = int(n)
    upstream,               \* local response of fetch_wikipedia_data: the latest upstream reply
    page_id,                \* local page_id of fetch_wikipedia_data
    data,                   \* local data of word_frequency
    clean_text,             \* local clean_text
    word_frequency_result,  \* local word_frequency_result
    session,                \* db.session of the thread: rows added, not yet committed
    response,               \* what the client of the thread received
    store,                  \* the SearchHistory table, rows in rowid order
    search_history_response \* body of the latest /search_history response

vars == <<pc, args, n, upstream, page_id, data, clean_text, word_frequency_result,
          session, response, store, search_history_response>>

----------------------------------------------------------------------------
(* Bounds of the model.                                                    *)

MaxHistory == 2      \* rows the table may hold before requests stop arriving
MaxExtractLen == 3   \* pieces (characters or tags) of an upstream extract
MaxNLen == 2         \* characters of the raw n parameter
MaxTextLen == 5      \* characters of a text handed to the analyzer alone
MaxN == 3            \* largest n handed to the analyzer alone
NumClients == 2      \* concurrently handled /word_frequency requests

----------------------------------------------------------------------------
(* Alphabets and input sets.                                               *)

Whitespace == {" "}
Tags == {"<p>"}
ExtractPieces == {"a", "b", " "} \cup Tags
NChars == {"0", "1", "-", "+", " ", "x"}
AnalyzeChars == {"a", "A", ".", " "}
Topics == {"Cat", "Dog"}
PageIds == {"-1", "736"}

SeqsUpTo(S, k) == UNION {[1..m -> S] : m \in 0..k}

Min(a, b) == IF a < b THEN a ELSE b

\* 'the cat sat on the mat the cat ran'
ScenarioText ==
    <<"t","h","e"," ","c","a","t"," ","s","a","t"," ","o","n"," ",
      "t","h","e"," ","m","a","t"," ","t","h","e"," ","c","a","t"," ",
      "r","a","n">>

----------------------------------------------------------------------------
(* str.split(): the maximal runs of non-whitespace characters, in order.   *)

RECURSIVE SplitFrom(_, _, _)
SplitFrom(text, i, cur) ==
    IF i > Len(text)
    THEN IF cur = "" THEN <<>> ELSE <<cur>>
    ELSE IF text[i] \in Whitespace
         THEN IF cur = "" THEN SplitFrom(text, i + 1, "")
              ELSE <<cur>> \o SplitFrom(text, i + 1, "")
         ELSE SplitFrom(text, i + 1, cur \o text[i])

split(text) == SplitFrom(text, 1, "")

(* collections.Counter(words): a dict in first-insertion order, here a     *)
(* sequence of <<word, count>>.                                            *)
CounterAdd(c, w) ==
    IF \E i \in 1..Len(c) : c[i][1] = w
    THEN [i \in 1..Len(c) |-> IF c[i][1] = w THEN <<w, c[i][2] + 1>> ELSE c[i]]
    ELSE Append(c, <<w, 1>>)

RECURSIVE CounterFrom(_, _, _)
CounterFrom(words, i, c) ==
    IF i > Len(words) THEN c ELSE CounterFrom(words, i + 1, CounterAdd(c, words[i]))

Counter(words) == CounterFrom(words, 1, <<>>)

\* Variant of InsertStable: an item goes ahead of the items of equal count.
InsertUnstable(sorted, item) ==
    LET ahead == Cardinality({i \in 1..Len(sorted) : sorted[i][2] > item[2]})
    IN  SubSeq(sorted, 1, ahead) \o <<item>> \o SubSeq(sorted, ahead + 1, Len(sorted))

(* Counter.most_common(k) is heapq.nlargest(k, items, key=count), which is *)
(* sorted(items, key=count, reverse=True)[:k]: a stable sort, so items of  *)
(* equal count keep their dict order.  InsertStable puts an item behind    *)
(* every item whose count is at least its own.                             *)
InsertStable(sorted, item) ==
    LET ahead == Cardinality({i \in 1..Len(sorted) : sorted[i][2] >= item[2]})
    IN  SubSeq(sorted, 1, ahead) \o <<item>> \o SubSeq(sorted, ahead + 1, Len(sorted))

RECURSIVE SortedFrom(_, _, _)
SortedFrom(items, i, sorted) ==
    IF i > Len(items) THEN sorted
    ELSE SortedFrom(items, i + 1, InsertStable(sorted, items[i]))

\* Variant of most_common: the whole sorted list, k ignored.
most_common_untruncated(c, k) == SortedFrom(c, 1, <<>>)

most_common(c, k) ==
    LET sorted == SortedFrom(c, 1, <<>>)
    IN  SubSeq(sorted, 1, Min(k, Len(sorted)))

analyze_word_frequency(article_text, k) == most_common(Counter(split(article_text)), k)

----------------------------------------------------------------------------
(* int(s) on a str: surrounding whitespace is dropped, one sign is         *)
(* allowed, the rest must be one or more decimal digits; anything else     *)
(* raises ValueError (ok = FALSE).  The alphabet NChars has no underscore  *)
(* and no non-ASCII digit, so those parts of int()'s grammar do not arise. *)

DigitValue(ch) ==
    CASE ch = "0" -> 0 [] ch = "1" -> 1 [] ch = "2" -> 2 [] ch = "3" -> 3
      [] ch = "4" -> 4 [] ch = "5" -> 5 [] ch = "6" -> 6 [] ch = "7" -> 7
      [] ch = "8" -> 8 [] ch = "9" -> 9

IsDigit(ch) == ch \in {"0", "1", "2", "3", "4", "5", "6", "7", "8", "9"}

RECURSIVE strip(_)
strip(s) ==
    IF s = <<>> THEN s
    ELSE IF s[1] \in Whitespace THEN strip(Tail(s))
    ELSE IF s[Len(s)] \in Whitespace THEN strip(SubSeq(s, 1, Len(s) - 1))
    ELSE s

RECURSIVE DigitsValue(_, _, _)
DigitsValue(ds, i, acc) ==
    IF i > Len(ds) THEN acc ELSE DigitsValue(ds, i + 1, 10 * acc + DigitValue(ds[i]))

int(s) ==
    LET t == strip(s)
        signed == t # <<>> /\ t[1] \in {"+", "-"}
        ds == IF signed THEN Tail(t) ELSE t
        ok == ds # <<>> /\ \A i \in 1..Len(ds) : IsDigit(ds[i])
        magnitude == IF ok THEN DigitsValue(ds, 1, 0) ELSE 0
    IN  [ok |-> ok,
         value |-> IF signed /\ t[1] = "-" THEN 0 - magnitude ELSE magnitude]

----------------------------------------------------------------------------
(* BeautifulSoup(article_text, 'html.parser').get_text(): the text nodes   *)
(* of the extract, concatenated.  An extract is a sequence of pieces, each *)
(* one character of text or one whole markup tag; the tags are dropped.    *)

IsText(piece) == piece \notin Tags

get_text(article_text) == SelectSeq(article_text, IsText)

----------------------------------------------------------------------------
(* The SearchHistory model and save_search_history.                        *)

SearchHistory(topic, top_words) == [topic |-> topic, top_words |-> top_words]

\* Variant of format_pair: no blank behind the colon.
format_pair_no_blank(pair) == pair[1] \o ":" \o ToString(pair[2])

\* f'{word}: {count}'
format_pair(pair) == pair[1] \o ": " \o ToString(pair[2])

RECURSIVE join(_, _)
join(sep, parts) ==
    IF parts = <<>> THEN ""
    ELSE IF Len(parts) = 1 THEN parts[1]
    ELSE parts[1] \o sep \o join(sep, Tail(parts))

top_words_str(result) == join(", ", [i \in 1..Len(result) |-> format_pair(result[i])])

\* db.session.add(SearchHistory(topic=topic, top_words=top_words_str))
session_add(sess, topic, result) == Append(sess, SearchHistory(topic, top_words_str(result)))

\* Variant of session_commit: a row equal to a stored row is not written again.
session_commit_unique(table, sess) ==
    table \o SelectSeq(sess, LAMBDA row : \A i \in 1..Len(table) : table[i] # row)

\* db.session.commit(): the pending rows get the next rowids, in order
session_commit(table, sess) == table \o sess

----------------------------------------------------------------------------
(* Responses.  raised = "" for a response the handler built with jsonify;  *)
(* otherwise an exception left the view function and raised names it: the  *)
(* client then gets the framework's own 500 page.                          *)

NoResponse == [status |-> 0, error |-> "", word_frequency |-> <<>>, raised |-> ""]

jsonify_error(msg, status) ==
    [status |-> status, error |-> msg, word_frequency |-> <<>>, raised |-> ""]

jsonify_word_frequency(result) ==
    [status |-> 200, error |-> "", word_frequency |-> result, raised |-> ""]

Unhandled(exception) ==
    [status |-> 500, error |-> "", word_frequency |-> <<>>, raised |-> exception]

----------------------------------------------------------------------------
(* What the two upstream calls can answer.  A reply is a transport error   *)
(* (requests.get raises), a non-2xx status (raise_for_status raises), a    *)
(* body that is not JSON (response.json raises JSONDecodeError, which is a *)
(* RequestException in requests 2.27 and later), or a JSON object.         *)

None == [none |-> TRUE]

EmptyObject == [k \in {} |-> ""]
NoQuery == [batchcomplete |-> ""]
NoPages == [batchcomplete |-> "", query |-> [normalized |-> ""]]
WithPages(pages) == [batchcomplete |-> "", query |-> [pages |-> pages]]

FailureKinds == {"timeout", "http_error", "bad_json"}

Reply(kind, body) == [kind |-> kind, body |-> body]

NoReply == Reply("", EmptyObject)

Extracts == SeqsUpTo(ExtractPieces, MaxExtractLen)

\* First call (titles=<topic>): only the keys of query.pages are read.
FirstPage(id) ==
    IF id = "-1" THEN [ns |-> 0, title |-> "Title", missing |-> ""]
    ELSE [pageid |-> id, ns |-> 0, title |-> "Title"]

FirstReplies ==
    {Reply(k, EmptyObject) : k \in FailureKinds}
    \cup {Reply("json", b) : b \in {EmptyObject, NoQuery, NoPages, WithPages(<<>>)}}
    \cup {Reply("json", WithPages(<<[key |-> id, value |-> FirstPage(id)]>>)) : id \in PageIds}

\* Second call (pageids=<page_id>&prop=extracts): the page may lack its
\* title, lack its extract, or carry an extract out of the given set.
PageValues(id, extracts) ==
    IF id = "-1"
    THEN {[pageid |-> id, missing |-> ""], [title |-> "Title", missing |-> ""]}
    ELSE {[pageid |-> id], [pageid |-> id, title |-> "Title"]}
         \cup {[pageid |-> id, title |-> "Title", extract |-> e] : e \in extracts}

SecondReplies(id, extracts) ==
    {Reply(k, EmptyObject) : k \in FailureKinds}
    \cup {Reply("json", b) : b \in {EmptyObject, NoQuery, NoPages, WithPages(<<>>)}}
    \cup {Reply("json", WithPages(<<[key |-> id, value |-> v]>>)) : v \in PageValues(id, extracts)}

\* request.args: a function on the query parameters that are present.
ArgsOf(topics, ns) ==
    {[topic |-> t, n |-> s] : t \in topics, s \in ns}
    \cup {[topic |-> t] : t \in topics}
    \cup {[n |-> s] : s \in ns}
    \cup {EmptyObject}

----------------------------------------------------------------------------
(* fetch_wikipedia_data, up to and after its first upstream call.  The     *)
(* try block catches RequestException only: a KeyError or IndexError from  *)
(* data['query']['pages'] or from [0] leaves the function.                 *)

HasPages(d) == "query" \in DOMAIN d /\ "pages" \in DOMAIN d.query

\* lines 35-40; outcome "none": return None, "raise": an exception escapes
fetch_page_id(reply) ==
    IF reply.kind \in FailureKinds THEN [outcome |-> "none", raised |-> "", page_id |-> ""]
    ELSE IF ~HasPages(reply.body) THEN [outcome |-> "raise", raised |-> "KeyError", page_id |-> ""]
    ELSE IF reply.body.query.pages = <<>>
         THEN [outcome |-> "raise", raised |-> "IndexError", page_id |-> ""]
    ELSE [outcome |-> "next", raised |-> "", page_id |-> reply.body.query.pages[1].key]

\* lines 46-54
fetch_content(reply) == IF reply.kind \in FailureKinds THEN None ELSE reply.body

----------------------------------------------------------------------------
(* word_frequency.                                                         *)

TopicFalsy(a) == "topic" \notin DOMAIN a \/ a.topic = ""
NFalsy(a) == "n" \notin DOMAIN a \/ a.n = <<>>

\* Variant of validate: n <= 0 written n < 0, so n = 0 passes.
validate_allows_zero(a) ==
    IF TopicFalsy(a) \/ NFalsy(a)
    THEN [n |-> 0,
          response |-> jsonify_error("Invalid input. Both topic and n are required.", 400)]
    ELSE LET parsed == int(a.n) IN
         IF ~parsed.ok
         THEN [n |-> 0, response |-> jsonify_error("Invalid value for n. invalid literal", 400)]
         ELSE IF parsed.value < 0
         THEN [n |-> parsed.value,
               response |-> jsonify_error("Invalid value for n. Please provide a positive integer.", 400)]
         ELSE [n |-> parsed.value, response |-> NoResponse]

\* lines 82-96: the response on a validation error, else NoResponse and n
validate(a) ==
    IF TopicFalsy(a) \/ NFalsy(a)
    THEN [n |-> 0,
          response |-> jsonify_error("Invalid input. Both topic and n are required.", 400)]
    ELSE LET parsed == int(a.n) IN
         IF ~parsed.ok
         THEN [n |-> 0, response |-> jsonify_error("Invalid value for n. invalid literal", 400)]
         ELSE IF parsed.value <= 0
         THEN [n |-> parsed.value,
               response |-> jsonify_error("Invalid value for n. Please provide a positive integer.", 400)]
         ELSE [n |-> parsed.value, response |-> NoResponse]

\* `not data`: None or an empty dict
NotData(d) == d = None \/ DOMAIN d = {}

\* Variant of check_data: the test of clean_text is missing.
check_data_keeps_empty_text(d) ==
    IF NotData(d) \/ ~HasPages(d)
    THEN jsonify_error("Invalid topic. Wikipedia article not found.", 404)
    ELSE IF d.query.pages = <<>> THEN Unhandled("IndexError")
    ELSE LET page == d.query.pages[1].value IN
         IF "title" \notin DOMAIN page
         THEN jsonify_error("Failed to retrieve article details from Wikipedia.", 500)
         ELSE IF "extract" \notin DOMAIN page THEN Unhandled("KeyError")
         ELSE NoResponse

\* Variant of check_data: a page without title is answered 404.
check_data_untitled_404(d) ==
    IF NotData(d) \/ ~HasPages(d)
    THEN jsonify_error("Invalid topic. Wikipedia article not found.", 404)
    ELSE IF d.query.pages = <<>> THEN Unhandled("IndexError")
    ELSE LET page == d.query.pages[1].value IN
         IF "title" \notin DOMAIN page
         THEN jsonify_error("Invalid topic. Wikipedia article not found.", 404)
         ELSE IF "extract" \notin DOMAIN page THEN Unhandled("KeyError")
         ELSE IF get_text(page.extract) = <<>>
         THEN jsonify_error("Failed to retrieve clean article text from Wikipedia.", 500)
         ELSE NoResponse

\* lines 102-118: the response that ends the request after the fetch, or
\* NoResponse when the handler goes on to analyze and save
check_data(d) ==
    IF NotData(d) \/ ~HasPages(d)
    THEN jsonify_error("Invalid topic. Wikipedia article not found.", 404)
    ELSE IF d.query.pages = <<>> THEN Unhandled("IndexError")
    ELSE LET page == d.query.pages[1].value IN
         IF "title" \notin DOMAIN page
         THEN jsonify_error("Failed to retrieve article details from Wikipedia.", 500)
         ELSE IF "extract" \notin DOMAIN page THEN Unhandled("KeyError")
         ELSE IF get_text(page.extract) = <<>>
         THEN jsonify_error("Failed to retrieve clean article text from Wikipedia.", 500)
         ELSE NoResponse

\* line 111-114, when check_data lets the handler go on
clean_text_of(d) == get_text(d.query.pages[1].value.extract)

----------------------------------------------------------------------------
(* The request threads.  A thread blocks in requests.get twice and in the  *)
(* commit; between these points it runs on its own locals only.            *)

Threads == DOMAIN pc

Locals(k, id, d, text, result) ==
    [n |-> k, page_id |-> id, data |-> d, clean_text |-> text, word_frequency_result |-> result]

SetLocals(p, l) ==
    /\ n' = [n EXCEPT ![p] = l.n]
    /\ page_id' = [page_id EXCEPT ![p] = l.page_id]
    /\ data' = [data EXCEPT ![p] = l.data]
    /\ clean_text' = [clean_text EXCEPT ![p] = l.clean_text]
    /\ word_frequency_result' = [word_frequency_result EXCEPT ![p] = l.word_frequency_result]

Return(p, r) ==
    /\ response' = [response EXCEPT ![p] = r]
    /\ pc' = [pc EXCEPT ![p] = "done"]

Goto(p, label) ==
    /\ pc' = [pc EXCEPT ![p] = label]
    /\ UNCHANGED response

\* lines 80-99 and 32-35: the request arrives, is validated, and either is
\* answered 400 or sends the first upstream call
word_frequency(p, a) ==
    /\ pc[p] = "idle"
    /\ args' = [args EXCEPT ![p] = a]
    /\ LET v == validate(a) IN
         /\ n' = [n EXCEPT ![p] = v.n]
         /\ IF v.response # NoResponse THEN Return(p, v.response) ELSE Goto(p, "page_id_url")
    /\ UNCHANGED <<upstream, page_id, data, clean_text, word_frequency_result,
                   session, store, search_history_response>>

\* lines 35-46, and 52-54 and 102-103 when the first call fails
first_reply(p, reply) ==
    /\ pc[p] = "page_id_url"
    /\ upstream' = [upstream EXCEPT ![p] = reply]
    /\ LET f == fetch_page_id(reply) IN
         /\ page_id' = [page_id EXCEPT ![p] = f.page_id]
         /\ CASE f.outcome = "next" -> Goto(p, "full_content_url")
              [] f.outcome = "none" -> Return(p, check_data(None))
              [] f.outcome = "raise" -> Return(p, Unhandled(f.raised))
    /\ UNCHANGED <<args, n, data, clean_text, word_frequency_result,
                   session, store, search_history_response>>

\* lines 46-54 and 99-124 up to db.session.add
second_reply(p, reply) ==
    /\ pc[p] = "full_content_url"
    /\ upstream' = [upstream EXCEPT ![p] = reply]
    /\ LET d == fetch_content(reply)
            r == check_data(d)
        IN  /\ data' = [data EXCEPT ![p] = d]
            /\ IF r # NoResponse
               THEN /\ Return(p, r)
                    /\ UNCHANGED <<clean_text, word_frequency_result, session>>
               ELSE LET text == clean_text_of(d)
                        result == analyze_word_frequency(text, n[p])
                    IN  /\ clean_text' = [clean_text EXCEPT ![p] = text]
                        /\ word_frequency_result' = [word_frequency_result EXCEPT ![p] = result]
                        /\ session' = [session EXCEPT ![p] = session_add(session[p], args[p].topic, result)]
                        /\ Goto(p, "commit")
    /\ UNCHANGED <<args, n, page_id, store, search_history_response>>

\* lines 66 and 127
commit(p) ==
    /\ pc[p] = "commit"
    /\ store' = session_commit(store, session[p])
    /\ session' = [session EXCEPT ![p] = <<>>]
    /\ Return(p, jsonify_word_frequency(word_frequency_result[p]))
    /\ UNCHANGED <<args, n, upstream, page_id, data, clean_text, word_frequency_result,
                   search_history_response>>

\* The thread has answered; its locals go out of scope and it takes the
\* next request.
finish(p) ==
    /\ pc[p] = "done"
    /\ pc' = [pc EXCEPT ![p] = "idle"]
    /\ args' = [args EXCEPT ![p] = EmptyObject]
    /\ response' = [response EXCEPT ![p] = NoResponse]
    /\ upstream' = [upstream EXCEPT ![p] = NoReply]
    /\ SetLocals(p, Locals(0, "", None, <<>>, <<>>))
    /\ UNCHANGED <<session, store, search_history_response>>

\* Variant of query_all: newest row first.
query_all_newest_first(table) == [i \in 1..Len(table) |-> table[Len(table) + 1 - i]]

\* SearchHistory.query.all(): a table scan, rows in rowid order
query_all(table) == table

\* line 136
search_history_data(searches) ==
    [i \in 1..Len(searches) |-> [topic |-> searches[i].topic, top_words |-> searches[i].top_words]]

\* lines 131-139
search_history ==
    /\ search_history_response' =
           [status |-> 200, search_history |-> search_history_data(query_all(store))]
    /\ UNCHANGED <<pc, args, n, upstream, page_id, data, clean_text,
                   word_frequency_result, session, response, store>>

\* lines 69-76 on their own: the analyzer applied to a given text and n
analyze(p) ==
    /\ pc[p] = "analyze"
    /\ word_frequency_result' =
           [word_frequency_result EXCEPT ![p] = analyze_word_frequency(clean_text[p], n[p])]
    /\ pc' = [pc EXCEPT ![p] = "analyzed"]
    /\ UNCHANGED <<args, n, upstream, page_id, data, clean_text, session, response,
                   store, search_history_response>>

----------------------------------------------------------------------------
(* Initial states and the specifications.                                  *)

InitThreads(T, label) ==
    /\ pc = [p \in T |-> label]
    /\ args = [p \in T |-> EmptyObject]
    /\ n = [p \in T |-> 0]
    /\ upstream = [p \in T |-> NoReply]
    /\ page_id = [p \in T |-> ""]
    /\ data = [p \in T |-> None]
    /\ clean_text = [p \in T |-> <<>>]
    /\ word_frequency_result = [p \in T |-> <<>>]
    /\ session = [p \in T |-> <<>>]
    /\ response = [p \in T |-> NoResponse]

InitStore ==
    /\ store = <<>>
    /\ search_history_response = [status |-> 0, search_history |-> <<>>]

Arrive(argset) == \E p \in Threads : \E a \in argset : word_frequency(p, a)
FirstReply(replies) == \E p \in Threads : \E r \in replies : first_reply(p, r)
SecondReply(extracts) ==
    \E p \in Threads : \E r \in SecondReplies(page_id[p], extracts) : second_reply(p, r)
Commit == \E p \in Threads : commit(p)
Finish == \E p \in Threads : finish(p)

(* Spec: one request thread serving requests one after the other, with     *)
(* /search_history reads at any time.  Requests stop arriving once the     *)
(* table holds MaxHistory rows.                                            *)

ServerNs == {<<"1">>, <<"2">>, <<"0">>, <<"x">>}
ServerExtracts ==
    {<<>>, <<"<p>">>, <<" ">>, <<"<p>", "a", " ", "b", " ", "a">>, <<"b", " ", "a">>}

Init == InitThreads({1}, "idle") /\ InitStore

Accept == Len(store) < MaxHistory /\ Arrive(ArgsOf(Topics \cup {""}, ServerNs))

Next ==
    \/ Accept
    \/ FirstReply(FirstReplies)
    \/ SecondReply(ServerExtracts)
    \/ Commit
    \/ Finish
    \/ search_history

Spec == Init /\ [][Next]_vars

(* SpecRequest: one request from its arrival to its response, over every   *)
(* raw n of up to MaxNLen characters and every extract of up to            *)
(* MaxExtractLen pieces.                                                   *)

NStrings == SeqsUpTo(NChars, MaxNLen)

NextRequest ==
    \/ Arrive(ArgsOf(Topics \cup {""}, NStrings))
    \/ FirstReply(FirstReplies)
    \/ SecondReply(Extracts)
    \/ Commit

SpecRequest == Init /\ [][NextRequest]_vars

(* SpecConc: NumClients requests handled by as many threads at once.       *)

ConcArgs == {[topic |-> t, n |-> <<"1">>] : t \in Topics} \cup {[topic |-> "Cat", n |-> <<"0">>]}
ConcFirstReplies ==
    {Reply("timeout", EmptyObject),
     Reply("json", WithPages(<<[key |-> "736", value |-> FirstPage("736")]>>))}
ConcExtracts == {<<"a">>, <<"b">>}

InitConc == InitThreads(1..NumClients, "idle") /\ InitStore

NextConc ==
    \/ Arrive(ConcArgs)
    \/ FirstReply(ConcFirstReplies)
    \/ SecondReply(ConcExtracts)
    \/ Commit

SpecConc == InitConc /\ [][NextConc]_vars

(* SpecAnalyze: analyze_word_frequency on every text of up to MaxTextLen   *)
(* characters, and on the scenario text, with every n up to MaxN.          *)

AnalyzeTexts == SeqsUpTo(AnalyzeChars, MaxTextLen) \cup {ScenarioText}

InitAnalyze ==
    /\ InitStore
    /\ \E text \in AnalyzeTexts : \E k \in 1..MaxN :
          /\ pc = [p \in {1} |-> "analyze"]
          /\ args = [p \in {1} |-> EmptyObject]
          /\ n = [p \in {1} |-> k]
          /\ upstream = [p \in {1} |-> NoReply]
          /\ page_id = [p \in {1} |-> ""]
          /\ data = [p \in {1} |-> None]
          /\ clean_text = [p \in {1} |-> text]
          /\ word_frequency_result = [p \in {1} |-> <<>>]
          /\ session = [p \in {1} |-> <<>>]
          /\ response = [p \in {1} |-> NoResponse]

Analyze == \E p \in Threads : analyze(p)

NextAnalyze == Analyze

SpecAnalyze == InitAnalyze /\ [][NextAnalyze]_vars

----------------------------------------------------------------------------
(* Vocabulary of the claims, stated without the operators of the model.    *)

IsPrefix(a, b) == Len(a) <= Len(b) /\ SubSeq(b, 1, Len(a)) = a

\* 'word: count' for each pair, joined by ', ', built from the left
RECURSIVE RenderPairs(_)
RenderPairs(L) ==
    IF L = <<>> THEN ""
    ELSE LET last == L[Len(L)][1] \o ": " \o ToString(L[Len(L)][2]) IN
         IF Len(L) = 1 THEN last
         ELSE RenderPairs(SubSeq(L, 1, Len(L) - 1)) \o ", " \o last

\* the tokens of a text: its maximal runs of non-whitespace characters
TokenSpans(text) ==
    {sp \in (1..Len(text)) \X (1..Len(text)) :
        /\ sp[1] <= sp[2]
        /\ \A k \in sp[1]..sp[2] : text[k] \notin Whitespace
        /\ sp[1] = 1 \/ text[sp[1] - 1] \in Whitespace
        /\ sp[2] = Len(text) \/ text[sp[2] + 1] \in Whitespace}

RECURSIVE Glue(_, _, _)
Glue(text, i, j) == IF i > j THEN "" ELSE text[i] \o Glue(text, i + 1, j)

TokenSet(text) == {Glue(text, sp[1], sp[2]) : sp \in TokenSpans(text)}
Occurrences(text, w) == Cardinality({sp \in TokenSpans(text) : Glue(text, sp[1], sp[2]) = w})
FirstAppearance(text, w) ==
    CHOOSE i \in 1..Len(text) :
        /\ \E sp \in TokenSpans(text) : sp[1] = i /\ Glue(text, sp[1], sp[2]) = w
        /\ \A sp \in TokenSpans(text) : Glue(text, sp[1], sp[2]) = w => sp[1] >= i

ResultWords(result) == {result[i][1] : i \in 1..Len(result)}

\* a raw n that reads as a positive integer: optional blanks, an optional
\* '+', decimal digits not all zero, optional blanks
PositiveLiteral(s) ==
    \E lo \in 1..Len(s) : \E hi \in lo..Len(s) :
        /\ \A k \in lo..hi : s[k] \in {"0", "1", "2", "3", "4", "5", "6", "7", "8", "9"}
        /\ \E k \in lo..hi : s[k] # "0"
        /\ \A k \in (hi + 1)..Len(s) : s[k] \in Whitespace
        /\ \/ \A k \in 1..(lo - 1) : s[k] \in Whitespace
           \/ /\ lo > 1
              /\ s[lo - 1] = "+"
              /\ \A k \in 1..(lo - 2) : s[k] \in Whitespace

InvalidParams(a) ==
    \/ "topic" \notin DOMAIN a
    \/ a.topic = ""
    \/ "n" \notin DOMAIN a
    \/ a.n = <<>>
    \/ ~PositiveLiteral(a.n)

HandlerMade(r, status) == r.status = status /\ r.raised = ""

Answered(p) == response[p] = NoResponse /\ response'[p] # NoResponse

----------------------------------------------------------------------------
(* C1: every row of the table was written by a /word_frequency request     *)
(* that fetched the article, got non-empty cleaned text and returned 200;  *)
(* a request that ends with 400, 404 or 500 leaves the table as it was.    *)
(* Checked on every step of Spec: the table changes only in the step that  *)
(* answers a request with 200, by that request's one row; a step that      *)
(* answers 400, 404 or 500 changes neither the table nor the session.      *)
C1_OnlySuccessPersists ==
    [][/\ store' # store =>
            \E p \in Threads :
                /\ Answered(p)
                /\ HandlerMade(response'[p], 200)
                /\ upstream[p].kind = "json"
                /\ HasPages(data[p])
                /\ clean_text[p] # <<>>
                /\ store' = Append(store, [topic |-> args[p].topic,
                                            top_words |-> RenderPairs(response'[p].word_frequency)])
       /\ \A p \in Threads :
            (Answered(p) /\ response'[p].status \in {400, 404, 500}) =>
                store' = store /\ session'[p] = <<>>
      ]_vars

\* a failed request was answered while the table held an earlier row
C1_Witness ==
    \E p \in Threads :
        /\ pc[p] = "done"
        /\ response[p].status \in {404, 500}
        /\ Len(store) >= 1

(* C2: after a /word_frequency request with topic t returns 200 with list  *)
(* L, /search_history holds exactly one entry more than before, with topic *)
(* t and top_words the pairs of L in order, each 'word: count', joined by  *)
(* ', '.                                                                   *)
C2_RoundTrip ==
    [][\A p \in Threads :
          (Answered(p) /\ response'[p].status = 200) =>
              search_history_data(query_all(store')) =
                  Append(search_history_data(query_all(store)),
                         [topic |-> args[p].topic,
                          top_words |-> RenderPairs(response'[p].word_frequency)])
      ]_vars

\* a second row was written from a list of two pairs
C2_Witness ==
    \E p \in Threads :
        /\ pc[p] = "done"
        /\ response[p].status = 200
        /\ Len(response[p].word_frequency) = 2
        /\ Len(store) = 2
        /\ store[2].top_words = "a: 2, b: 1"

(* C3: whatever the two upstream calls answer, a /word_frequency request   *)
(* ends with a response built by the handler, of status 200, 400, 404 or   *)
(* 500, and no exception leaves fetch_wikipedia_data or word_frequency.    *)
C3_NoExceptionEscapes ==
    \A p \in Threads :
        pc[p] = "done" =>
            /\ response[p].raised = ""
            /\ response[p].status \in {200, 400, 404, 500}

(* C4: a /word_frequency request returns 400 exactly when topic is missing *)
(* or empty, n is missing or empty, or n does not read as a positive       *)
(* integer; every other request passes validation and never returns 400.   *)
C4_ValidationIs400 ==
    \A p \in Threads :
        pc[p] \in {"page_id_url", "full_content_url", "commit", "done"} =>
            /\ InvalidParams(args[p]) <=> response[p].status = 400
            /\ InvalidParams(args[p]) => pc[p] = "done" /\ HandlerMade(response[p], 400)

\* n = '-1' .. : n parses, to a negative integer, and the answer is 400
C4_Witness ==
    \E p \in Threads :
        /\ pc[p] = "done"
        /\ response[p].status = 400
        /\ "topic" \in DOMAIN args[p] /\ args[p].topic # ""
        /\ "n" \in DOMAIN args[p] /\ args[p].n = <<"-", "1">>

(* C5: with valid parameters, if the fetch fails (transport error or       *)
(* non-2xx on either upstream call) or the upstream reports no matching    *)
(* page, the request returns 404 with an error body and no history entry   *)
(* is created.  The upstream reports no matching page by a reply without   *)
(* query.pages, the shape word_frequency checks for before its 404.        *)
C5_NotFoundIs404 ==
    \A p \in Threads :
        (/\ pc[p] = "done"
         /\ ~InvalidParams(args[p])
         /\ \/ upstream[p].kind \in {"timeout", "http_error"}
            \/ upstream[p].kind = "json" /\ ~HasPages(upstream[p].body))
        => /\ HandlerMade(response[p], 404)
           /\ response[p].error # ""
           /\ store = <<>>

(* C6: with valid parameters and a fetched response that has query.pages,  *)
(* the request returns 500 and persists nothing when the first page has no *)
(* title, and also when it has a title but its extract is markup only, so  *)
(* that the cleaned text is empty.                                         *)
C6_BadPageIs500 ==
    \A p \in Threads :
        (/\ HasPages(data[p])
         /\ data[p].query.pages # <<>>
         /\ LET page == data[p].query.pages[1].value IN
               \/ "title" \notin DOMAIN page
               \/ /\ "extract" \in DOMAIN page
                  /\ \A i \in 1..Len(page.extract) : page.extract[i] \in Tags)
        => /\ pc[p] = "done"
           /\ HandlerMade(response[p], 500)
           /\ response[p].error # ""
           /\ session[p] = <<>>
           /\ store = <<>>

\* a titled page whose extract is one tag and nothing else
C6_Witness ==
    \E p \in Threads :
        /\ pc[p] = "done"
        /\ response[p].status = 500
        /\ HasPages(data[p])
        /\ data[p].query.pages # <<>>
        /\ "title" \in DOMAIN data[p].query.pages[1].value
        /\ "extract" \in DOMAIN data[p].query.pages[1].value
        /\ data[p].query.pages[1].value.extract = <<"<p>">>

(* C7: for every cleaned text and positive n, analyze_word_frequency       *)
(* returns min(n, d) pairs, d the number of distinct whitespace-delimited  *)
(* tokens: never more than n, and all d tokens, each once, when d < n.     *)
C7_LengthIsMinOfNAndDistinct ==
    \A p \in Threads :
        pc[p] = "analyzed" =>
            LET result == word_frequency_result[p]
                tokens == TokenSet(clean_text[p])
                d == Cardinality(tokens)
            IN  /\ Len(result) = (IF n[p] < d THEN n[p] ELSE d)
                /\ Cardinality(ResultWords(result)) = Len(result)
                /\ ResultWords(result) \subseteq tokens
                /\ d < n[p] => ResultWords(result) = tokens

\* fewer distinct tokens than n: all of them come back
C7_Witness ==
    \E p \in Threads :
        /\ pc[p] = "analyzed"
        /\ n[p] = 3
        /\ Cardinality(TokenSet(clean_text[p])) = 2
        /\ Len(word_frequency_result[p]) = 2

(* C8: each returned pair carries the exact number of occurrences of its   *)
(* word among the case- and punctuation-sensitive tokens; the pairs are in *)
(* non-increasing order of count; pairs of equal count are in order of     *)
(* first appearance; no omitted token has a higher count than a returned   *)
(* one, or an equal count and an earlier first appearance; and 'the cat    *)
(* sat on the mat the cat ran' with n = 3 gives the: 3, cat: 2, sat: 1.    *)
C8_ExactCountsStableOrder ==
    \A p \in Threads :
        pc[p] = "analyzed" =>
            LET result == word_frequency_result[p]
                text == clean_text[p]
            IN  /\ \A i \in 1..Len(result) :
                      /\ result[i][1] \in TokenSet(text)
                      /\ result[i][2] = Occurrences(text, result[i][1])
                /\ \A i \in 1..Len(result) : \A j \in (i + 1)..Len(result) :
                      /\ result[i][2] >= result[j][2]
                      /\ result[i][2] = result[j][2] =>
                            FirstAppearance(text, result[i][1]) < FirstAppearance(text, result[j][1])
                /\ \A w \in TokenSet(text) \ ResultWords(result) : \A i \in 1..Len(result) :
                      /\ Occurrences(text, w) <= result[i][2]
                      /\ Occurrences(text, w) = result[i][2] =>
                            FirstAppearance(text, w) > FirstAppearance(text, result[i][1])
                /\ (text = ScenarioText /\ n[p] = 3) =>
                      result = <<(<<"the", 3>>), (<<"cat", 2>>), (<<"sat", 1>>)>>

\* the scenario of the specification
C8_Witness ==
    \E p \in Threads :
        /\ pc[p] = "analyzed"
        /\ clean_text[p] = ScenarioText
        /\ n[p] = 3
        /\ Len(word_frequency_result[p]) = 3

(* C9: /search_history returns 200 with every stored row in insertion      *)
(* order and does not change the table; rows are never mutated, deleted or *)
(* reordered, so the list of an earlier read is a prefix of the list of    *)
(* any later read, and a read returns a new list only if the table grew.   *)
C9_ReadsArePrefixes ==
    [][/\ IsPrefix(store, store')
       /\ search_history_response' # search_history_response =>
            /\ search_history_response'.status = 200
            /\ search_history_response'.search_history = store
            /\ store' = store
            /\ IsPrefix(search_history_response.search_history,
                        search_history_response'.search_history)
            /\ search_history_response.status = 200 =>
                  search_history_response.search_history # store
      ]_vars

\* a read that lists two rows of the same topic, in the order written
C9_Witness ==
    /\ search_history_response.status = 200
    /\ Len(search_history_response.search_history) = 2
    /\ search_history_response.search_history[1].topic =
          search_history_response.search_history[2].topic
    /\ search_history_response.search_history[1].top_words = "a: 2, b: 1"
    /\ search_history_response.search_history[2].top_words = "b: 1"

(* C10: for every interleaving of concurrently handled /word_frequency     *)
(* requests, once all have finished the rows added are, one for one, the   *)
(* requests that returned 200, each row carrying its request's own topic   *)
(* and serialized result: none lost, merged or written twice.              *)
Succeeded == {p \in Threads : HandlerMade(response[p], 200)}

C10_OneRowPerSuccess ==
    (\A p \in Threads : pc[p] = "done") =>
        /\ Len(store) = Cardinality(Succeeded)
        /\ \E f \in [1..Len(store) -> Succeeded] :
              /\ \A i \in 1..Len(store) : \A j \in 1..Len(store) : f[i] = f[j] => i = j
              /\ \A i \in 1..Len(store) :
                    store[i] = [topic |-> args[f[i]].topic,
                                top_words |-> RenderPairs(response[f[i]].word_frequency)]

\* two requests for the same topic with the same result, both finished
C10_Witness ==
    /\ \A p \in Threads : pc[p] = "done"
    /\ \E p \in Succeeded : \E q \in Succeeded :
          /\ p # q
          /\ args[p].topic = args[q].topic
          /\ response[p].word_frequency = response[q].word_frequency

====
